---- MODULE Spec2Model ----
(***************************************************************************)
(* The igraph string vector (igraph_strvector_t): a slot array of owned,   *)
(* NUL-terminated character buffers with three extents, stor_begin,        *)
(* end and stor_end.  Pointers into the slot array are modelled as offsets *)
(* from stor_begin (so stor_begin is 0, Size is end, capacity is stor_end).*)
(* String buffers live in a heap of numbered blocks.  Block numbers are    *)
(* addresses: the program never compares or prints them, so after every    *)
(* call the blocks are renumbered in order of first reference and blocks   *)
(* that nothing refers to are dropped (a dropped unreleased block is a     *)
(* leak, recorded in last.leak).                                           *)
(***************************************************************************)
EXTENDS Integers, Sequences, FiniteSets, TLC

VARIABLES
    vec,        \* vec[n]: the igraph_strvector_t object named n
    heap,       \* heap[p]: the string buffer at address p
    last,       \* the call made last: operation, arguments, result
    aborted,    \* the process has been terminated (fatal assertion, trap)
    extra,      \* calls made since the data structure was first damaged
    limit,      \* the number of slots the allocator can supply in this run
    freeClears, \* whether the build's IGRAPH_FREE also clears its argument
    huge        \* size and capacity of a vector too large to list slot by
                \* slot, and the result of the last add to it

vars == <<vec, heap, last, aborted, extra, limit, freeClears, huge>>

-----------------------------------------------------------------------------
(* Bounds of the model *)

\* number of slots the slot array may hold in the runs with one vector
MaxCells == 4

\* number of slots the two slot arrays may hold together in the runs with
\* two vectors
MaxPair == 3

\* number of slots the allocator can supply where calls outside the index
\* contract or sequences of resizes are followed
MaxSide == 3

\* number of slots the second vector may hold
MaxOther == 2

\* number of further calls followed once a vector is damaged (a live slot
\* without a buffer of its own, end beyond stor_end, undefined behaviour)
MaxDamagedCalls == 0

\* largest vector igraph_strvector_permdelete is called on
MaxPerm == 3

\* longest index list handed to igraph_strvector_index
MaxIdx == 2

-----------------------------------------------------------------------------
(* Values *)

NULL == 0

\* an indeterminate pointer value: storage that was never written, or that
\* lies outside the allocation
Wild == 0 - 1

\* the value a pointer keeps once the buffer it referred to is released
Freed == 0 - 2

IGRAPH_INTEGER_MAX == 2147483647

Names == {"A", "B"}

Other(n) == IF n = "A" THEN "B" ELSE "A"

\* C strings handed in by callers: "" and "a" as byte sequences
Strings == {<< >>, <<1>>}

Min(a, b) == IF a < b THEN a ELSE b

Max(a, b) == IF a > b THEN a ELSE b

Range(s) == {s[i] : i \in DOMAIN s}

RECURSIVE strlen(_)
strlen(buf) ==
    IF buf = << >> \/ Head(buf) = 0 THEN 0 ELSE 1 + strlen(Tail(buf))

\* the C string a buffer denotes: the bytes before the first zero byte
CStr(buf) == SubSeq(buf, 1, strlen(buf))

\* IGRAPH_CALLOC(len + 1, char) followed by strcpy(buffer, value)
StrCpyBuf(value) == CStr(value) \o <<0>>

\* len + 1 bytes, memcpy(buffer, value, len), buffer[len] = '\0'
MemCpyBuf(value, len) == SubSeq(value, 1, len) \o <<0>>

\* IGRAPH_CALLOC(1, char)
EmptyBuf == <<0>>

-----------------------------------------------------------------------------
(* The heap of string buffers *)

Live(h, p) == p \in DOMAIN h /\ h[p].live

NewId(h) ==
    CHOOSE i \in 1..(Cardinality(DOMAIN h) + 1) :
        i \notin DOMAIN h /\ \A j \in 1..(i - 1) : j \in DOMAIN h

Alloc(h, buf) == (NewId(h) :> [live |-> TRUE, buf |-> buf]) @@ h

Release(h, p) == [h EXCEPT ![p] = [live |-> FALSE, buf |-> EmptyBuf]]

-----------------------------------------------------------------------------
(* The vector object and the working state of a call                       *)
(* W = [sl, h, ub, fatal]: the slot array, the heap, whether undefined     *)
(* behaviour has happened in this call, whether the call trapped.          *)

NoVector == [st |-> "none", slots |-> << >>, alloc |-> 0, stor_end |-> 0, end |-> 0]

igraph_strvector_size(v) == v.end

At(sl, i) == IF i >= 0 /\ i < Len(sl) THEN sl[i + 1] ELSE Wild

\* a store to slot i; a store past the array lands in the memory behind it
Put(sl, i, p) ==
    [k \in 1..Max(Len(sl), i + 1) |->
        IF k = i + 1 THEN p ELSE IF k <= Len(sl) THEN sl[k] ELSE Wild]

Work(v, h) == [sl |-> v.slots, h |-> h, ub |-> FALSE, fatal |-> FALSE]

\* IGRAPH_FREE(v->stor_begin[i]): free(NULL) does nothing; releasing a
\* released or indeterminate pointer is undefined
IGRAPH_FREE(W, i) ==
    LET p == At(W.sl, i)
        W1 == IF p = NULL THEN W
              ELSE IF Live(W.h, p) THEN [W EXCEPT !.h = Release(W.h, p)]
              ELSE [W EXCEPT !.ub = TRUE]
    IN IF freeClears THEN [W1 EXCEPT !.sl = Put(W1.sl, i, NULL)] ELSE W1

RECURSIVE FreeRange(_, _, _)
FreeRange(W, lo, hi) ==
    IF lo >= hi THEN W ELSE FreeRange(IGRAPH_FREE(W, lo), lo + 1, hi)

\* realloc of the slot array to n slots: the first min(old, n) slots are
\* kept, the others hold indeterminate values
ReallocSlots(sl, alloc, n) ==
    [k \in 1..n |-> IF k <= Min(alloc, n) THEN At(sl, k - 1) ELSE Wild]

\* the string read through pointer p; junk is what a read through a
\* released or indeterminate pointer happens to yield
ReadStr(h, p, junk) == IF Live(h, p) THEN CStr(h[p].buf) ELSE junk

-----------------------------------------------------------------------------
(* igraph_strvector_resize *)

\* the per-slot initialisation loop; failAt is the i whose allocation fails
RECURSIVE ResizeInit(_, _, _, _, _)
RECURSIVE ResizeCleanup(_, _, _, _)
ResizeCleanup(W, oldsize, i, j) ==
    IF j >= i THEN W
    ELSE ResizeCleanup(IF At(W.sl, oldsize + i) # NULL
                       THEN IGRAPH_FREE(W, oldsize + i) ELSE W,
                       oldsize, i, j + 1)

ResizeInit(W, oldsize, i, toadd, failAt) ==
    IF i >= toadd THEN [W |-> W, ok |-> TRUE]
    ELSE IF i = failAt
    THEN [W |-> ResizeCleanup([W EXCEPT !.sl = Put(W.sl, oldsize + i, NULL)],
                              oldsize, i, 0),
          ok |-> FALSE]
    ELSE ResizeInit([W EXCEPT !.sl = Put(W.sl, oldsize + i, NewId(W.h)),
                              !.h = Alloc(W.h, EmptyBuf)],
                    oldsize, i + 1, toadd, failAt)

\* a resize that only moves end where the capacity suffices: shrinking keeps
\* the strings, growing back shows them again
ResizeKeepsStrings(v, h, newsize, fail) ==
    LET oldsize == igraph_strvector_size(v)
    IN IF newsize <= v.stor_end
       THEN [v |-> [v EXCEPT !.end = newsize], h |-> h, rc |-> "OK",
             ub |-> FALSE, fatal |-> FALSE, nfail |-> 0]
       ELSE IF fail = 1
       THEN [v |-> v, h |-> h, rc |-> "ENOMEM", ub |-> FALSE, fatal |-> FALSE,
             nfail |-> 1]
       ELSE LET W0 == [Work(v, h) EXCEPT
                           !.sl = ReallocSlots(v.slots, v.alloc, newsize)]
                R == ResizeInit(W0, oldsize, 0, newsize - oldsize, fail - 2)
            IN [v |-> [v EXCEPT !.slots = R.W.sl, !.alloc = newsize,
                                !.stor_end = newsize, !.end = newsize],
                h |-> R.W.h, rc |-> IF R.ok THEN "OK" ELSE "ENOMEM",
                ub |-> R.W.ub, fatal |-> FALSE, nfail |-> IF R.ok THEN 0 ELSE 1]

\* fail: 0 no allocation fails, 1 the realloc of the slot array fails,
\* k + 2 the allocation of the k-th new slot (k = 0, 1, ...) fails
igraph_strvector_resize(v, h, newsize, fail) ==
    LET oldsize == igraph_strvector_size(v)
        toadd == newsize - oldsize
    IN IF newsize < oldsize
       THEN LET W == FreeRange(Work(v, h), newsize, oldsize)
            IN [v |-> [v EXCEPT !.slots = W.sl, !.end = newsize],
                h |-> W.h, rc |-> "OK", ub |-> W.ub, fatal |-> FALSE, nfail |-> 0]
       ELSE IF newsize > oldsize
       THEN IF fail = 1
            THEN [v |-> v, h |-> h, rc |-> "ENOMEM", ub |-> FALSE, fatal |-> FALSE,
                  nfail |-> 1]
            ELSE LET W0 == [Work(v, h) EXCEPT
                                !.sl = ReallocSlots(v.slots, v.alloc, newsize)]
                     R == ResizeInit(W0, oldsize, 0, toadd, fail - 2)
                 IN [v |-> [v EXCEPT !.slots = R.W.sl, !.alloc = newsize,
                                     !.stor_end = newsize, !.end = newsize],
                     h |-> R.W.h,
                     rc |-> IF R.ok THEN "OK" ELSE "ENOMEM",
                     ub |-> R.W.ub, fatal |-> FALSE,
                     nfail |-> IF R.ok THEN 0 ELSE 1]
       ELSE [v |-> v, h |-> h, rc |-> "OK", ub |-> FALSE, fatal |-> FALSE, nfail |-> 0]

\* the failure points a resize to newsize has
ResizeFails(v, newsize) ==
    IF newsize > igraph_strvector_size(v)
    THEN 0..(newsize - igraph_strvector_size(v) + 1) ELSE {0}

-----------------------------------------------------------------------------
(* igraph_strvector_set, igraph_strvector_set2 *)

\* a set that resizes the buffer of a slot but does not copy the value in
SetSlotNoCopy(v, h, idx, buf, fail, moved) ==
    LET p == At(v.slots, idx)
    IN IF fail
       THEN [v |-> v, h |-> h, rc |-> "ENOMEM", ub |-> FALSE, fatal |-> FALSE, nfail |-> 1]
       ELSE IF Live(h, p)
       THEN [v |-> v, h |-> h, rc |-> "OK", ub |-> FALSE, fatal |-> FALSE, nfail |-> 0]
       ELSE [v |-> [v EXCEPT !.slots = Put(v.slots, idx, NewId(h))],
             h |-> Alloc(h, buf),
             rc |-> "OK", ub |-> idx >= v.alloc, fatal |-> FALSE, nfail |-> 0]

\* the body both forms share once the new buffer content buf is known:
\* calloc for a NULL slot, realloc otherwise.  fail: the allocation fails;
\* moved: a successful realloc returns a new block and releases the old one
SetSlot(v, h, idx, buf, fail, moved) ==
    LET p == At(v.slots, idx)
        wild == p # NULL /\ ~Live(h, p)
        ub == wild \/ idx >= v.alloc
    IN IF fail
       THEN [v |-> v, h |-> h, rc |-> "ENOMEM", ub |-> ub, fatal |-> FALSE, nfail |-> 1]
       ELSE IF p # NULL /\ ~wild /\ ~moved
       THEN [v |-> v, h |-> [h EXCEPT ![p].buf = buf],
             rc |-> "OK", ub |-> ub, fatal |-> FALSE, nfail |-> 0]
       ELSE LET h0 == IF p # NULL /\ ~wild THEN Release(h, p) ELSE h
            IN [v |-> [v EXCEPT !.slots = Put(v.slots, idx, NewId(h0))],
                h |-> Alloc(h0, buf),
                rc |-> "OK", ub |-> ub, fatal |-> FALSE, nfail |-> 0]

igraph_strvector_set(v, h, idx, value, fail, moved) ==
    SetSlot(v, h, idx, StrCpyBuf(value), fail, moved)

igraph_strvector_set2(v, h, idx, value, len, fail, moved) ==
    IF idx < 0 \/ idx >= v.stor_end
    THEN [v |-> v, h |-> h, rc |-> "EINVAL", ub |-> FALSE, fatal |-> FALSE, nfail |-> 0]
    ELSE SetSlot(v, h, idx, MemCpyBuf(value, len), fail, moved)

-----------------------------------------------------------------------------
(* igraph_strvector_add *)

\* the size the call asks igraph_strvector_resize for when end = stor_end
AddNewSize(old_size) ==
    LET new_size == IF old_size < IGRAPH_INTEGER_MAX \div 2
                    THEN old_size * 2 ELSE IGRAPH_INTEGER_MAX
    IN IF new_size = 0 THEN 1 ELSE new_size

\* fr: the failure point of the resize the call makes when end = stor_end
\* (its result is not looked at); fv: the allocation of the value fails
igraph_strvector_add(v, h, value, fr, fv) ==
    LET old_size == igraph_strvector_size(v)
        new_size == AddNewSize(old_size)
    IN IF old_size = IGRAPH_INTEGER_MAX
       THEN [v |-> v, h |-> h, rc |-> "EOVERFLOW", ub |-> FALSE, fatal |-> FALSE,
             nfail |-> 0]
       ELSE LET R == IF v.end = v.stor_end
                     THEN igraph_strvector_resize(v, h, new_size, fr)
                     ELSE [v |-> v, h |-> h, rc |-> "OK", ub |-> FALSE,
                           fatal |-> FALSE, nfail |-> 0]
                ub == R.ub \/ old_size >= R.v.alloc
            IN IF fv
               THEN [v |-> [R.v EXCEPT !.slots = Put(R.v.slots, old_size, NULL)],
                     h |-> R.h, rc |-> "ENOMEM", ub |-> ub, fatal |-> FALSE,
                     nfail |-> R.nfail + 1]
               ELSE [v |-> [R.v EXCEPT !.slots = Put(R.v.slots, old_size, NewId(R.h)),
                                       !.end = old_size + 1],
                     h |-> Alloc(R.h, StrCpyBuf(value)),
                     rc |-> "OK", ub |-> ub, fatal |-> FALSE, nfail |-> R.nfail]

\* the capacity the call asks for when it has to grow
AddGrowth(v) ==
    IF v.end = v.stor_end THEN Max(1, 2 * igraph_strvector_size(v)) ELSE v.alloc

-----------------------------------------------------------------------------
(* igraph_strvector_remove_section, igraph_strvector_remove, clear *)

\* a shift that stops one element early (p < end - to - 1)
RECURSIVE ShiftDownShort(_, _, _, _, _)
ShiftDownShort(sl, k, end, from, to) ==
    IF k >= end - to - 1 THEN sl
    ELSE ShiftDownShort(Put(sl, from + k, At(sl, to + k)), k + 1, end, from, to)

\* for (p = stor_begin; p < end - to; p++) p[from] = p[to];
RECURSIVE ShiftDown(_, _, _, _, _)
ShiftDown(sl, k, end, from, to) ==
    IF k >= end - to THEN sl
    ELSE ShiftDown(Put(sl, from + k, At(sl, to + k)), k + 1, end, from, to)

igraph_strvector_remove_section(v, h, from, to) ==
    LET W == FreeRange(Work(v, h), from, to)
    IN [v |-> [v EXCEPT !.slots = ShiftDown(W.sl, 0, v.end, from, to),
                        !.end = v.end - (to - from)],
        h |-> W.h, rc |-> "OK", ub |-> W.ub, fatal |-> FALSE, nfail |-> 0]

igraph_strvector_remove(v, h, elem) ==
    igraph_strvector_remove_section(v, h, elem, elem + 1)

igraph_strvector_clear(v, h) ==
    LET W == FreeRange(Work(v, h), 0, igraph_strvector_size(v))
    IN [v |-> [v EXCEPT !.slots = W.sl, !.end = 0],
        h |-> W.h, rc |-> "OK", ub |-> W.ub, fatal |-> FALSE, nfail |-> 0]

-----------------------------------------------------------------------------
(* igraph_strvector_move_interval *)

\* the first loop: the slots of the destination that are not NULL are freed
RECURSIVE MoveFree(_, _, _)
MoveFree(W, i, hi) ==
    IF i >= hi THEN W
    ELSE MoveFree(IF At(W.sl, i) # NULL THEN IGRAPH_FREE(W, i) ELSE W, i + 1, hi)

\* the second loop: a source slot that is not NULL is copied into a buffer
\* of strlen + 1 bytes.  The source is read through its pointer (undefined
\* where the first loop released it); the result of IGRAPH_CALLOC is not
\* tested, memcpy to NULL is undefined.  failAt is the i whose allocation
\* fails
RECURSIVE MoveCopy(_, _, _, _, _, _, _)
MoveCopy(W, begin, to, i, n, failAt, junk) ==
    IF i >= n THEN W
    ELSE LET p == At(W.sl, begin + i)
         IN IF p = NULL THEN MoveCopy(W, begin, to, i + 1, n, failAt, junk)
            ELSE LET W1 == [W EXCEPT !.ub = W.ub \/ ~Live(W.h, p)]
                     W2 == IF i = failAt
                           THEN [W1 EXCEPT !.sl = Put(W1.sl, to + i, NULL),
                                           !.ub = TRUE]
                           ELSE [W1 EXCEPT
                                    !.sl = Put(W1.sl, to + i, NewId(W1.h)),
                                    !.h = Alloc(W1.h,
                                                StrCpyBuf(ReadStr(W1.h, p, junk)))]
                 IN MoveCopy(W2, begin, to, i + 1, n, failAt, junk)

igraph_strvector_move_interval(v, h, begin, end, to, failAt, junk) ==
    LET W0 == MoveFree(Work(v, h), to, to + end - begin)
        W == MoveCopy(W0, begin, to, 0, end - begin, failAt, junk)
    IN [v |-> [v EXCEPT !.slots = W.sl], h |-> W.h, rc |-> "OK", ub |-> W.ub,
        fatal |-> FALSE, nfail |-> IF failAt >= 0 THEN 1 ELSE 0]

-----------------------------------------------------------------------------
(* igraph_strvector_permdelete *)

RECURSIVE PermLoop(_, _, _, _)
PermLoop(W, i, n, index) ==
    IF i >= n THEN W
    ELSE PermLoop(IF index[i + 1] # 0
                  THEN [W EXCEPT !.sl = Put(W.sl, index[i + 1] - 1, At(W.sl, i))]
                  ELSE IGRAPH_FREE(W, i),
                  i + 1, n, index)

\* re: what the shrinking realloc does: 0 it shrinks the block in place,
\* 1 it fails, which the call tolerates, 2 it returns a block at another
\* address.  stor_end and end are pointers into the old block and are only
\* decremented: after a move their distance to stor_begin is indeterminate;
\* the model keeps both as offsets and marks the call as undefined.
igraph_strvector_permdelete(v, h, index, nremove, re) ==
    LET n == igraph_strvector_size(v)
        W == PermLoop(Work(v, h), 0, n, index)
        want == IF n - nremove # 0 THEN n - nremove ELSE 1
    IN [v |-> [v EXCEPT !.slots = IF re = 1 THEN W.sl
                                  ELSE ReallocSlots(W.sl, v.alloc, want),
                        !.alloc = IF re = 1 THEN v.alloc ELSE want,
                        !.stor_end = v.stor_end - nremove,
                        !.end = v.end - nremove],
        h |-> W.h, rc |-> "OK", ub |-> W.ub \/ re = 2, fatal |-> FALSE,
        nfail |-> IF re = 1 THEN 1 ELSE 0]

\* the outcomes of the realloc in igraph_strvector_permdelete
PermReallocs == 0..2

\* the mappings the contract allows for a vector of n elements: nremove
\* zeros, the other entries distinct and within 1..n-nremove
Mappings(n, nremove) ==
    {m \in [1..n -> 0..(n - nremove)] :
        /\ Cardinality({i \in 1..n : m[i] = 0}) = nremove
        /\ \A i, j \in 1..n : (i # j /\ m[i] # 0) => m[i] # m[j]}

-----------------------------------------------------------------------------
(* igraph_strvector_init, igraph_strvector_destroy *)

\* releases the slots below end, then the slot array
igraph_strvector_destroy(v, h) ==
    LET W == FreeRange(Work(v, h), 0, v.end)
    IN [v |-> NoVector, h |-> W.h, rc |-> "OK", ub |-> W.ub, fatal |-> FALSE,
        nfail |-> 0]

RECURSIVE InitSlots(_, _, _)
InitSlots(W, i, n) ==
    IF i >= n THEN W
    ELSE InitSlots([W EXCEPT !.sl = Put(W.sl, i, NewId(W.h)),
                             !.h = Alloc(W.h, EmptyBuf)], i + 1, n)

\* fail: 0 none, 1 the slot array, k + 2 the k-th slot.  When a slot fails
\* the call destroys the vector before end has been assigned: the loop of
\* igraph_strvector_destroy runs to an indeterminate end (undefined); where
\* the call returns, the slots allocated so far were not released.
\* pad: the cells IGRAPH_CALLOC hands out when asked for none (the macro is
\* not part of the source: calloc may give a block of no cell, igraph's
\* allocation macros give one cell)
igraph_strvector_init(h, size, fail, pad) ==
    IF fail = 1
    THEN [v |-> NoVector, h |-> h, rc |-> "ENOMEM", ub |-> FALSE, fatal |-> FALSE,
          nfail |-> 1]
    ELSE IF fail >= 2
    THEN [v |-> NoVector,
          h |-> InitSlots([sl |-> << >>, h |-> h, ub |-> FALSE, fatal |-> FALSE],
                          0, fail - 2).h,
          rc |-> "ENOMEM", ub |-> TRUE, fatal |-> FALSE, nfail |-> 1]
    ELSE LET W == InitSlots([sl |-> [k \in 1..Max(size, pad) |-> NULL], h |-> h,
                             ub |-> FALSE, fatal |-> FALSE], 0, size)
         IN [v |-> [st |-> "ready", slots |-> W.sl, alloc |-> Max(size, pad),
                    stor_end |-> size, end |-> size],
             h |-> W.h, rc |-> "OK", ub |-> FALSE, fatal |-> FALSE, nfail |-> 0]

-----------------------------------------------------------------------------
(* igraph_strvector_get, igraph_strvector_copy, igraph_strvector_index *)

\* the assertion of igraph_strvector_get: a NULL slot is fatal
GetFatal(v, idx) == At(v.slots, idx) = NULL

\* the value Get yields where it returns
igraph_strvector_get(v, h, idx, junk) == ReadStr(h, At(v.slots, idx), junk)

GetUb(v, h, idx) == ~Live(h, At(v.slots, idx))

\* a copy loop that stores the pointer of the source instead of a copy of
\* its string
RECURSIVE CopyLoopShallow(_, _, _, _, _, _)
CopyLoopShallow(to, h, from, i, failAt, junk) ==
    IF i >= igraph_strvector_size(from)
    THEN [v |-> to, h |-> h, rc |-> "OK", ub |-> FALSE, fatal |-> FALSE, nfail |-> 0]
    ELSE IF GetFatal(from, i)
    THEN [v |-> to, h |-> h, rc |-> "OK", ub |-> FALSE, fatal |-> TRUE, nfail |-> 0]
    ELSE IF i = failAt
    THEN [v |-> NoVector, h |-> h, rc |-> "ENOMEM", ub |-> FALSE, fatal |-> FALSE,
          nfail |-> 1]
    ELSE CopyLoopShallow([to EXCEPT !.slots = Put(to.slots, i, At(from.slots, i))],
                         h, from, i + 1, failAt, junk)

\* the copy loop; failAt is the i whose igraph_strvector_set fails
RECURSIVE CopyLoop(_, _, _, _, _, _)
CopyLoop(to, h, from, i, failAt, junk) ==
    IF i >= igraph_strvector_size(from)
    THEN [v |-> to, h |-> h, rc |-> "OK", ub |-> FALSE, fatal |-> FALSE, nfail |-> 0]
    ELSE IF GetFatal(from, i)
    THEN [v |-> to, h |-> h, rc |-> "OK", ub |-> FALSE, fatal |-> TRUE, nfail |-> 0]
    ELSE LET S == igraph_strvector_set(to, h, i,
                      igraph_strvector_get(from, h, i, junk), i = failAt, FALSE)
         IN IF S.rc # "OK"
            THEN LET D == igraph_strvector_destroy(S.v, S.h)
                 IN [D EXCEPT !.rc = S.rc, !.nfail = 1,
                              !.ub = D.ub \/ GetUb(from, h, i)]
            ELSE LET R == CopyLoop(S.v, S.h, from, i + 1, failAt, junk)
                 IN [R EXCEPT !.ub = R.ub \/ GetUb(from, h, i)]

\* the cells a block asked for with a count of zero may have
ZeroAlloc(size) == IF size = 0 THEN 0..1 ELSE {0}

\* fail: 0 none, 1 the slot array, k + 2 the copy of element k; pad as in
\* igraph_strvector_init
igraph_strvector_copy(h, from, fail, junk, pad) ==
    IF fail = 1
    THEN [v |-> NoVector, h |-> h, rc |-> "ENOMEM", ub |-> FALSE, fatal |-> FALSE,
          nfail |-> 1]
    ELSE LET n == igraph_strvector_size(from)
             to == [st |-> "ready", slots |-> [k \in 1..Max(n, pad) |-> NULL],
                    alloc |-> Max(n, pad), stor_end |-> n, end |-> n]
         IN CopyLoop(to, h, from, 0, fail - 2, junk)

\* a gather loop that copies element i of v instead of element idx[i]
RECURSIVE IndexLoopIdentity(_, _, _, _, _, _, _, _)
IndexLoopIdentity(newv, h, v, idx, i, failAt, moved, junk) ==
    IF i >= Len(idx)
    THEN [v |-> newv, h |-> h, rc |-> "OK", ub |-> FALSE, fatal |-> FALSE, nfail |-> 0]
    ELSE IF GetFatal(v, i)
    THEN [v |-> newv, h |-> h, rc |-> "OK", ub |-> FALSE, fatal |-> TRUE, nfail |-> 0]
    ELSE LET S == igraph_strvector_set(newv, h, i,
                      igraph_strvector_get(v, h, i, junk),
                      i = failAt, moved)
             R == IndexLoopIdentity(S.v, S.h, v, idx, i + 1, failAt, moved, junk)
         IN [R EXCEPT !.ub = R.ub \/ S.ub \/ GetUb(v, h, i),
                      !.nfail = R.nfail + S.nfail]

\* the gather loop: the result of igraph_strvector_set is not looked at
RECURSIVE IndexLoop(_, _, _, _, _, _, _, _)
IndexLoop(newv, h, v, idx, i, failAt, moved, junk) ==
    IF i >= Len(idx)
    THEN [v |-> newv, h |-> h, rc |-> "OK", ub |-> FALSE, fatal |-> FALSE, nfail |-> 0]
    ELSE IF GetFatal(v, idx[i + 1])
    THEN [v |-> newv, h |-> h, rc |-> "OK", ub |-> FALSE, fatal |-> TRUE, nfail |-> 0]
    ELSE LET S == igraph_strvector_set(newv, h, i,
                      igraph_strvector_get(v, h, idx[i + 1], junk),
                      i = failAt, moved)
             R == IndexLoop(S.v, S.h, v, idx, i + 1, failAt, moved, junk)
         IN [R EXCEPT !.ub = R.ub \/ S.ub \/ GetUb(v, h, idx[i + 1]),
                      !.nfail = R.nfail + S.nfail]

\* fr: the failure point of the resize; fs: the i whose set fails, or -1
igraph_strvector_index(v, newv, h, idx, fr, fs, moved, junk) ==
    LET R == igraph_strvector_resize(newv, h, Len(idx), fr)
    IN IF R.rc # "OK" THEN R
       ELSE LET G == IndexLoop(R.v, R.h, v, idx, 0, fs, moved, junk)
            IN [G EXCEPT !.ub = G.ub \/ R.ub]

-----------------------------------------------------------------------------
(* igraph_strvector_append *)

\* an append loop that stores at slot i instead of slot len1 + i
RECURSIVE AppendLoopNoOffset(_, _, _, _, _, _)
AppendLoopNoOffset(W, from, len1, i, failAt, junk) ==
    IF i >= igraph_strvector_size(from) THEN [W |-> W, error |-> FALSE]
    ELSE LET p == At(from.slots, i)
             s == ReadStr(W.h, p, junk)
             W1 == [W EXCEPT !.ub = W.ub \/ ~Live(W.h, p)]
         IN IF p = NULL THEN [W |-> [W EXCEPT !.fatal = TRUE], error |-> FALSE]
            ELSE IF s = << >> THEN AppendLoopNoOffset(W1, from, len1, i + 1, failAt, junk)
            ELSE LET W2 == IGRAPH_FREE(W1, i)
                 IN IF i = failAt
                    THEN [W |-> [W2 EXCEPT !.sl = Put(W2.sl, i, NULL)],
                          error |-> TRUE]
                    ELSE AppendLoopNoOffset(
                            [W2 EXCEPT !.sl = Put(W2.sl, i, NewId(W2.h)),
                                       !.h = Alloc(W2.h, StrCpyBuf(s))],
                            from, len1, i + 1, failAt, junk)

\* the loop over the elements of from; failAt is the i whose strdup fails
RECURSIVE AppendLoop(_, _, _, _, _, _)
AppendLoop(W, from, len1, i, failAt, junk) ==
    IF i >= igraph_strvector_size(from) THEN [W |-> W, error |-> FALSE]
    ELSE LET p == At(from.slots, i)
             s == ReadStr(W.h, p, junk)
             W1 == [W EXCEPT !.ub = W.ub \/ ~Live(W.h, p)]
         IN IF p = NULL THEN [W |-> [W EXCEPT !.fatal = TRUE], error |-> FALSE]
            ELSE IF s = << >> THEN AppendLoop(W1, from, len1, i + 1, failAt, junk)
            ELSE LET W2 == IGRAPH_FREE(W1, len1 + i)
                 IN IF i = failAt
                    THEN [W |-> [W2 EXCEPT !.sl = Put(W2.sl, len1 + i, NULL)],
                          error |-> TRUE]
                    ELSE AppendLoop(
                            [W2 EXCEPT !.sl = Put(W2.sl, len1 + i, NewId(W2.h)),
                                       !.h = Alloc(W2.h, StrCpyBuf(s))],
                            from, len1, i + 1, failAt, junk)

\* an append that returns the error without cutting the vector back
AppendNoRollback(to, h, from, fr, fs, junk) ==
    LET len1 == igraph_strvector_size(to)
        len2 == igraph_strvector_size(from)
        R == igraph_strvector_resize(to, h, len1 + len2, fr)
    IN IF R.rc # "OK" THEN R
       ELSE LET L == AppendLoop(Work(R.v, R.h), from, len1, 0, fs, junk)
            IN [v |-> [R.v EXCEPT !.slots = L.W.sl], h |-> L.W.h,
                rc |-> IF L.error THEN "ENOMEM" ELSE "OK",
                ub |-> L.W.ub \/ R.ub, fatal |-> L.W.fatal,
                nfail |-> IF L.error THEN 1 ELSE 0]

\* fr: the failure point of the resize; fs: the i whose strdup fails, or -1
igraph_strvector_append(to, h, from, fr, fs, junk) ==
    LET len1 == igraph_strvector_size(to)
        len2 == igraph_strvector_size(from)
        R == igraph_strvector_resize(to, h, len1 + len2, fr)
    IN IF R.rc # "OK" THEN R
       ELSE LET L == AppendLoop(Work(R.v, R.h), from, len1, 0, fs, junk)
                v1 == [R.v EXCEPT !.slots = L.W.sl]
            IN IF L.error
               THEN LET U == igraph_strvector_resize(v1, L.W.h, len1, 0)
                    IN [U EXCEPT !.rc = "ENOMEM", !.nfail = 1,
                                 !.ub = U.ub \/ L.W.ub \/ R.ub]
               ELSE [v |-> v1, h |-> L.W.h, rc |-> "OK",
                     ub |-> L.W.ub \/ R.ub, fatal |-> L.W.fatal, nfail |-> 0]

-----------------------------------------------------------------------------
(* Renumbering of the heap after a call *)

\* The buffers are numbered in the order the vectors refer to them; a
\* pointer to a released buffer becomes Freed; a live buffer no slot refers
\* to is dropped and reported as a leak.
RECURSIVE FirstRefs(_, _, _)
FirstRefs(ps, h, acc) ==
    IF ps = << >> THEN acc
    ELSE FirstRefs(Tail(ps), h,
                   IF Live(h, Head(ps)) /\ Head(ps) \notin Range(acc)
                   THEN Append(acc, Head(ps)) ELSE acc)

Renumber(vs, h) ==
    LET ord == FirstRefs(vs["A"].slots \o vs["B"].slots, h, << >>)
        new(p) == IF p = NULL THEN NULL
                  ELSE IF Live(h, p) THEN CHOOSE k \in 1..Len(ord) : ord[k] = p
                  ELSE IF p \in DOMAIN h \/ p = Freed THEN Freed
                  ELSE Wild
    IN [vec |-> [n \in Names |->
                    [vs[n] EXCEPT !.slots = [k \in DOMAIN vs[n].slots |->
                                                new(vs[n].slots[k])]]],
        heap |-> [k \in 1..Len(ord) |-> h[ord[k]]],
        leak |-> \E p \in DOMAIN h : h[p].live /\ p \notin Range(ord)]

-----------------------------------------------------------------------------------------------------------------------------------------------------
(* The calls a client makes *)

\* what is remembered of the last call: the operation, the vector, its size
\* and capacity before the call, the sizes asked for by a sequence of
\* resizes or the index list of a gather, the result code, whether the behaviour was undefined, whether a
\* buffer was left that nothing refers to; copied: the vector was made by
\* igraph_strvector_copy (until either vector is destroyed or initialised)
NoCall ==
    [op |-> "none", v |-> "A", n0 |-> 0, c0 |-> 0, arg |-> << >>,
     rc |-> "OK", ub |-> FALSE, leak |-> FALSE, copied |-> FALSE]

Call(op, n) ==
    [NoCall EXCEPT !.op = op, !.v = n,
                   !.n0 = vec[n].end, !.c0 = vec[n].stor_end,
                   !.copied = IF op = "Copy" THEN TRUE
                              ELSE IF op \in {"Initialize", "Destroy"} THEN FALSE
                              ELSE last.copied]

\* the invariants of the data structure: the extents are ordered, the slots
\* below end lie in the slot array, and each holds a buffer of its own that
\* has not been released
WellFormed(vs, h) ==
    /\ \A n \in Names :
          /\ vs[n].end <= vs[n].stor_end
          /\ vs[n].end <= vs[n].alloc
          /\ \A k \in 1..vs[n].end : Live(h, At(vs[n].slots, k - 1))
          /\ \A k, l \in 1..vs[n].end :
                k # l => At(vs[n].slots, k - 1) # At(vs[n].slots, l - 1)
    /\ \A k \in 1..vs["A"].end : \A l \in 1..vs["B"].end :
          At(vs["A"].slots, k - 1) # At(vs["B"].slots, l - 1)

Damaged(vs, h, call) == call.ub \/ ~WellFormed(vs, h)

\* what is left of the slots of v when the stores made outside the slot
\* array are not read back
Kept(v) == [v EXCEPT !.slots = SubSeq(v.slots, 1, Min(Len(v.slots), v.alloc))]

\* a call on vector n with outcome R returns; where it trapped or its
\* behaviour was undefined it may instead terminate the process, and where
\* it stored outside the slot array the stored values may be lost
Finish(n, R, call) ==
    \E out \in (IF R.fatal THEN {"abort"}
                ELSE IF R.ub THEN {"abort", "return", "lost"} ELSE {"return"}) :
        IF out # "abort"
        THEN LET C == Renumber([vec EXCEPT ![n] = IF out = "lost" THEN Kept(R.v)
                                                 ELSE R.v], R.h)
             IN /\ vec' = C.vec
                /\ heap' = C.heap
                /\ last' = [call EXCEPT !.rc = R.rc, !.ub = R.ub, !.leak = C.leak]
                /\ extra' = IF Damaged(vec, heap, last) /\ Damaged(C.vec, C.heap, last')
                            THEN extra + 1 ELSE 0
                /\ UNCHANGED <<aborted, limit, freeClears, huge>>
        ELSE /\ aborted' = TRUE
             /\ last' = [call EXCEPT !.rc = "ABORT", !.ub = R.ub]
             /\ UNCHANGED <<vec, heap, extra, limit, freeClears, huge>>

\* calls are followed while the process runs and the damage bound allows
Running == ~aborted /\ (Damaged(vec, heap, last) => extra < MaxDamagedCalls)

Ready(n) == Running /\ vec[n].st = "ready"

\* the slots vector n may grow to
Room(n) ==
    Min(IF n = "A" THEN limit ELSE MaxOther, limit - vec[Other(n)].alloc)

\* what a read through a bad pointer of vector n may yield
Junk(n) ==
    IF \E i \in 0..(vec[n].end - 1) :
           At(vec[n].slots, i) # NULL /\ ~Live(heap, At(vec[n].slots, i))
    THEN Strings ELSE {<< >>}

NoBig == [size |-> 0, cap |-> 0, rc |-> "none"]

Start(cells) ==
    /\ vec = [n \in Names |-> NoVector]
    /\ heap = << >>
    /\ last = NoCall
    /\ aborted = FALSE
    /\ extra = 0
    /\ limit = cells
    /\ freeClears \in BOOLEAN
    /\ huge = NoBig

Init == Start(MaxCells)

InitPair == Start(MaxPair)

InitSide == Start(MaxSide)

InitializeCall(n, size, fail, pad) ==
    /\ Running /\ vec[n].st = "none"
    /\ Max(size, pad) <= Room(n)
    /\ Finish(n, igraph_strvector_init(heap, size, fail, pad),
              Call("Initialize", n))

Initialize(n) ==
    \E size \in 0..Room(n) : \E fail \in 0..(size + 1) :
    \E pad \in ZeroAlloc(size) :
        InitializeCall(n, size, fail, pad)

Destroy(n) ==
    /\ Ready(n)
    /\ Finish(n, igraph_strvector_destroy(vec[n], heap), Call("Destroy", n))

\* whether realloc moves the buffer shows only where another slot holds the
\* same pointer
Moves(n, idx) ==
    IF \E m \in Names : \E k \in 1..Len(vec[m].slots) :
           /\ <<m, k>> # <<n, idx + 1>>
           /\ vec[m].slots[k] = At(vec[n].slots, idx)
    THEN BOOLEAN ELSE {TRUE}

SetCall(n, idx, value, fail, moved) ==
    /\ Ready(n)
    /\ Finish(n, igraph_strvector_set(vec[n], heap, idx, value, fail, moved),
              Call("Set", n))

Set(n) ==
    \E idx \in 0..(vec[n].end - 1) : \E value \in Strings :
    \E fail \in BOOLEAN : \E moved \in Moves(n, idx) :
        SetCall(n, idx, value, fail, moved)

Set2Call(n, idx, value, fail, moved) ==
    /\ Ready(n)
    /\ Finish(n, igraph_strvector_set2(vec[n], heap, idx, value, Len(value),
                                       fail, moved),
              Call("Set2", n))

Set2(n) ==
    \E idx \in 0..(vec[n].end - 1) : \E value \in Strings :
    \E fail \in BOOLEAN : \E moved \in Moves(n, idx) :
        Set2Call(n, idx, value, fail, moved)

AddCall(n, value, fr, fv) ==
    /\ Ready(n)
    /\ AddGrowth(vec[n]) <= Room(n)
    /\ Finish(n, igraph_strvector_add(vec[n], heap, value, fr, fv),
              Call("Add", n))

\* the failure points of the resize an add makes
AddFails(v) ==
    IF v.end = v.stor_end THEN ResizeFails(v, AddGrowth(v)) ELSE {0}

Add(n) ==
    \E value \in Strings : \E fv \in BOOLEAN : \E fr \in AddFails(vec[n]) :
        AddCall(n, value, fr, fv)

ResizeCall(n, newsize, fail) ==
    /\ Ready(n)
    /\ Finish(n, igraph_strvector_resize(vec[n], heap, newsize, fail),
              Call("Resize", n))

Resize(n) ==
    \E newsize \in 0..Room(n) : \E fail \in ResizeFails(vec[n], newsize) :
        ResizeCall(n, newsize, fail)

RemoveRangeCall(n, from, to) ==
    /\ Ready(n)
    /\ Finish(n, igraph_strvector_remove_section(vec[n], heap, from, to),
              Call("RemoveRange", n))

RemoveRange(n) ==
    \E to \in 0..vec[n].end : \E from \in 0..to : RemoveRangeCall(n, from, to)

RemoveCall(n, elem) ==
    /\ Ready(n)
    /\ Finish(n, igraph_strvector_remove(vec[n], heap, elem),
              Call("Remove", n))

Remove(n) == \E elem \in 0..(vec[n].end - 1) : RemoveCall(n, elem)

Clear(n) ==
    /\ Ready(n)
    /\ Finish(n, igraph_strvector_clear(vec[n], heap), Call("Clear", n))

PermutationCompactCall(n, index, nremove, re) ==
    /\ Ready(n)
    /\ Finish(n, igraph_strvector_permdelete(vec[n], heap, index, nremove, re),
              Call("PermutationCompact", n))

PermutationCompact(n) ==
    /\ vec[n].end <= MaxPerm
    /\ \E nremove \in 0..vec[n].end :
       \E index \in Mappings(vec[n].end, nremove) : \E re \in PermReallocs :
           PermutationCompactCall(n, index, nremove, re)

AppendCall(n, fr, fs, junk) ==
    /\ Ready(n) /\ Ready(Other(n))
    /\ vec[n].end + vec[Other(n)].end <= Room(n)
    /\ Finish(n, igraph_strvector_append(vec[n], heap, vec[Other(n)], fr, fs, junk),
              Call("Append", n))

\* the failure points of the resize an append makes, and of its strdups
AppendFails(to, from) == ResizeFails(to, to.end + from.end)

DupFails(from) == (0 - 1)..(from.end - 1)

AppendTo(n) ==
    \E fr \in AppendFails(vec[n], vec[Other(n)]) :
    \E fs \in DupFails(vec[Other(n)]) : \E junk \in Junk(Other(n)) :
        AppendCall(n, fr, fs, junk)

CopyCall(n, fail, junk, pad) ==
    /\ Running /\ vec[n].st = "none" /\ vec[Other(n)].st = "ready"
    /\ Max(vec[Other(n)].end, pad) <= Room(n)
    /\ Finish(n, igraph_strvector_copy(heap, vec[Other(n)], fail, junk, pad),
              Call("Copy", n))

CopyTo(n) ==
    \E fail \in 0..(vec[Other(n)].end + 1) : \E junk \in Junk(Other(n)) :
    \E pad \in ZeroAlloc(vec[Other(n)].end) :
        CopyCall(n, fail, junk, pad)

GatherByIndexCall(n, idx, fr, fs, moved, junk) ==
    /\ Ready(n) /\ Ready(Other(n))
    /\ Finish(n, igraph_strvector_index(vec[Other(n)], vec[n], heap, idx,
                                        fr, fs, moved, junk),
              [Call("GatherByIndex", n) EXCEPT !.arg = idx])

GatherByIndex(n) ==
    \E len \in 0..Min(MaxIdx, Room(n)) :
    \E idx \in [1..len -> 0..(vec[Other(n)].end - 1)] :
    \E fr \in ResizeFails(vec[n], len) : \E fs \in (0 - 1)..(len - 1) :
    \E moved \in BOOLEAN : \E junk \in Junk(Other(n)) :
        GatherByIndexCall(n, idx, fr, fs, moved, junk)

\* the calls on one vector
Next ==
    \/ Initialize("A")
    \/ Destroy("A")
    \/ Set("A")
    \/ Set2("A")
    \/ Add("A")
    \/ Resize("A")
    \/ RemoveRange("A")
    \/ Remove("A")
    \/ Clear("A")
    \/ PermutationCompact("A")

\* the calls on two vectors: A is the receiver, B the vector that Append,
\* Copy and GatherByIndex read
NextPair ==
    \/ Next
    \/ AppendTo("A")
    \/ CopyTo("A")
    \/ GatherByIndex("A")
    \/ Initialize("B")
    \/ Set("B")
    \/ Destroy("B")

Spec == Init /\ [][Next]_vars

SpecPair == InitPair /\ [][NextPair]_vars

-----------------------------------------------------------------------------
(* Calls outside the index contract, and the resize sequence *)

\* the indices outside [0, size) tried: -1, and size up to the capacity
OutIdx(n) == {0 - 1} \cup (vec[n].end .. vec[n].stor_end)

SetOutside(n) ==
    \E idx \in OutIdx(n) : \E value \in Strings :
    \E fail \in BOOLEAN : \E moved \in Moves(n, idx) :
        SetCall(n, idx, value, fail, moved)

Set2Outside(n) ==
    \E idx \in OutIdx(n) : \E value \in Strings :
    \E fail \in BOOLEAN : \E moved \in Moves(n, idx) :
        Set2Call(n, idx, value, fail, moved)

NextRange ==
    \/ Next
    \/ SetOutside("A")
    \/ Set2Outside("A")

SpecRange == InitSide /\ [][NextRange]_vars

\* igraph_strvector_resize(v, big); igraph_strvector_resize(v, small);
\* igraph_strvector_resize(v, big); with no allocation failing
ResizeSeq(v, h, big, small) ==
    LET R1 == igraph_strvector_resize(v, h, big, 0)
        R2 == igraph_strvector_resize(R1.v, R1.h, small, 0)
        R3 == igraph_strvector_resize(R2.v, R2.h, big, 0)
    IN [R3 EXCEPT !.ub = R1.ub \/ R2.ub \/ R3.ub]

ResizeThriceCall(n, big, small) ==
    /\ Ready(n)
    /\ Finish(n, ResizeSeq(vec[n], heap, big, small),
              [Call("ResizeThrice", n) EXCEPT !.arg = <<big, small>>])

ResizeThrice(n) ==
    \E big \in 1..Room(n) : \E small \in 0..(big - 1) :
        ResizeThriceCall(n, big, small)

NextResize ==
    \/ Next
    \/ ResizeThrice("A")

SpecResize == InitSide /\ [][NextResize]_vars

\* the calls on a vector and its copy: B is initialised and copied from, A
\* is made by igraph_strvector_copy, and either is then changed
NextCopy ==
    \/ Initialize("B")
    \/ CopyTo("A")
    \/ Set("A")
    \/ Add("A")
    \/ Resize("A")
    \/ RemoveRange("A")
    \/ Clear("A")
    \/ AppendTo("A")
    \/ Destroy("A")
    \/ Set("B")
    \/ Add("B")
    \/ Resize("B")
    \/ RemoveRange("B")
    \/ Clear("B")
    \/ Destroy("B")

SpecCopy == InitPair /\ [][NextCopy]_vars

\* number of slots the allocator can supply where elements are gathered
MaxGather == 4

InitGather == Start(MaxGather)

\* the calls around a gather: B is the vector read, A the result vector,
\* brought to any size and contents beforehand
NextGather ==
    \/ Initialize("A")
    \/ Initialize("B")
    \/ Set("A")
    \/ Set("B")
    \/ Resize("A")
    \/ GatherByIndex("A")
    \/ Destroy("A")
    \/ Destroy("B")

SpecGather == InitGather /\ [][NextGather]_vars

\* number of slots the allocator can supply where strings of two bytes are
\* stored
MaxSet == 2

\* the strings stored there: "", "a" and "ab"
SetStrings == {<< >>, <<1>>, <<1, 2>>}

InitSet == Start(MaxSet)

SetLong(n) ==
    \E idx \in 0..(vec[n].end - 1) : \E value \in SetStrings :
    \E fail \in BOOLEAN : \E moved \in Moves(n, idx) :
        SetCall(n, idx, value, fail, moved)

\* the explicit-length form with the first len bytes of value
Set2LenCall(n, idx, value, len, fail, moved) ==
    /\ Ready(n)
    /\ Finish(n, igraph_strvector_set2(vec[n], heap, idx, value, len, fail, moved),
              Call("Set2", n))

Set2Len(n) ==
    \E idx \in 0..(vec[n].end - 1) : \E value \in SetStrings :
    \E len \in 0..Len(value) : \E fail \in BOOLEAN : \E moved \in Moves(n, idx) :
        Set2LenCall(n, idx, value, len, fail, moved)

NextSet ==
    \/ Initialize("A")
    \/ Destroy("A")
    \/ Add("A")
    \/ Resize("A")
    \/ Remove("A")
    \/ SetLong("A")
    \/ Set2Len("A")

SpecSet == InitSet /\ [][NextSet]_vars

\* igraph_strvector_move_interval with both ranges within [0, size)
MoveIntervalCall(n, begin, end, to, failAt, junk) ==
    /\ Ready(n)
    /\ Finish(n, igraph_strvector_move_interval(vec[n], heap, begin, end, to,
                                                failAt, junk),
              [Call("MoveInterval", n) EXCEPT !.arg = <<begin, end, to>>])

MoveInterval(n) ==
    \E end \in 0..vec[n].end : \E begin \in 0..end :
    \E to \in 0..(vec[n].end - (end - begin)) :
    \E failAt \in (0 - 1)..(end - begin - 1) : \E junk \in Strings :
        MoveIntervalCall(n, begin, end, to, failAt, junk)

NextMove ==
    \/ Next
    \/ MoveInterval("A")

SpecMove == InitSide /\ [][NextMove]_vars

-----------------------------------------------------------------------------
(* igraph_strvector_add on vectors near the largest size.  A vector of     *)
(* IGRAPH_INTEGER_MAX elements cannot be listed slot by slot: huge keeps its *)
(* size (end - stor_begin) and capacity (stor_end - stor_begin) only, and   *)
(* every allocation succeeds.                                               *)

\* how far around 0, IGRAPH_INTEGER_MAX / 2 and IGRAPH_INTEGER_MAX the sizes
\* and capacities tried lie
MaxNear == 2

BigSizes ==
    (0..MaxNear)
    \cup {IGRAPH_INTEGER_MAX \div 2 + k : k \in (0 - MaxNear)..MaxNear}
    \cup {IGRAPH_INTEGER_MAX - k : k \in 0..MaxNear}

\* what igraph_strvector_resize does to size and capacity
ResizeExtents(b, newsize) ==
    IF newsize < b.size THEN [b EXCEPT !.size = newsize]
    ELSE IF newsize > b.size THEN [b EXCEPT !.size = newsize, !.cap = newsize]
    ELSE b

\* what igraph_strvector_add does to size and capacity
AddExtents(b) ==
    IF b.size = IGRAPH_INTEGER_MAX THEN [b EXCEPT !.rc = "EOVERFLOW"]
    ELSE LET R == IF b.size = b.cap THEN ResizeExtents(b, AddNewSize(b.size))
                  ELSE b
         IN [R EXCEPT !.size = b.size + 1, !.rc = "OK"]

\* an add to a vector of one of the sizes tried
AddBig ==
    /\ huge.size \in BigSizes
    /\ huge' = AddExtents(huge)
    /\ UNCHANGED <<vec, heap, last, aborted, extra, limit, freeClears>>

InitGrowth ==
    /\ vec = [n \in Names |-> NoVector]
    /\ heap = << >>
    /\ last = NoCall
    /\ aborted = FALSE
    /\ extra = 0
    /\ limit = 0
    /\ freeClears \in BOOLEAN
    /\ huge \in {[size |-> sz, cap |-> c, rc |-> "none"] :
                   sz \in BigSizes, c \in BigSizes}
    /\ huge.size <= huge.cap

NextGrowth == AddBig

SpecGrowth == InitGrowth /\ [][NextGrowth]_vars

-----------------------------------------------------------------------------
(* What a client observes *)

\* the string igraph_strvector_get would hand out for pointer p; NoString
\* where p is no live buffer
NoString == <<0 - 1>>

StrAt(h, p) == IF Live(h, p) THEN CStr(h[p].buf) ELSE NoString

Contents(vs, h, n) ==
    [k \in 1..vs[n].end |-> StrAt(h, At(vs[n].slots, k - 1))]

\* the process runs and the last call stayed within defined behaviour
Defined == ~aborted /\ ~last.ub

-----------------------------------------------------------------------------
(* Properties *)

\* C1: in every state reached through the public operations, allocation
\* failures included, every slot below end of an initialised vector holds a
\* non-null pointer to an initialised string.
C1_LiveSlotsInitialized ==
    Defined =>
        \A n \in Names : vec[n].st = "ready" =>
            \A k \in 1..vec[n].end :
                /\ At(vec[n].slots, k - 1) # NULL
                /\ Live(heap, At(vec[n].slots, k - 1))

\* C2: in every reachable state stor_begin <= end <= stor_end, that is
\* 0 <= size <= capacity.
C2_ExtentsOrdered ==
    Defined =>
        \A n \in Names : vec[n].st = "ready" =>
            0 <= vec[n].end /\ vec[n].end <= vec[n].stor_end

\* C3: no two slots below end, of one vector or of two, refer to the same
\* buffer, and none refers to a buffer that has been released.
C3_ExclusiveOwnership ==
    Defined =>
        /\ \A n, m \in Names : \A k \in 1..vec[n].end : \A l \in 1..vec[m].end :
              (<<n, k>> # <<m, l>> /\ At(vec[n].slots, k - 1) > 0)
                  => At(vec[n].slots, k - 1) # At(vec[m].slots, l - 1)
        /\ \A n \in Names : \A k \in 1..vec[n].end :
              At(vec[n].slots, k - 1) # Freed

\* C4: a Set, Add or Append in which exactly one allocation fails returns an
\* error and leaves the size and the contents of the vector as they were.
C4_FailureLeavesVectorUnchanged ==
    [][last'.op \in {"Set", "Set2", "Add", "Append"} =>
         LET v == vec["A"]
             Same == /\ last'.rc # "OK"
                     /\ vec'["A"].end = v.end
                     /\ Contents(vec', heap', "A") = Contents(vec, heap, "A")
         IN /\ \A idx \in 0..(v.end - 1) : \A value \in Strings :
               \A moved \in Moves("A", idx) :
                  ( /\ WellFormed(vec, heap) /\ ~aborted' /\ ~last'.ub
                    /\ \/ SetCall("A", idx, value, TRUE, moved)
                       \/ Set2Call("A", idx, value, TRUE, moved) ) => Same
            /\ \A value \in Strings : \A fv \in BOOLEAN : \A fr \in AddFails(v) :
                  ( /\ WellFormed(vec, heap) /\ ~aborted' /\ ~last'.ub
                    /\ igraph_strvector_add(v, heap, value, fr, fv).nfail = 1
                    /\ AddCall("A", value, fr, fv) ) => Same
            /\ \A fr \in AppendFails(v, vec["B"]) : \A fs \in DupFails(vec["B"]) :
               \A junk \in Junk("B") :
                  ( /\ WellFormed(vec, heap) /\ ~aborted' /\ ~last'.ub
                    /\ igraph_strvector_append(v, heap, vec["B"], fr, fs, junk).nfail = 1
                    /\ AppendCall("A", fr, fs, junk) ) => Same
    ]_vars

\* C5: Set, in either form, called with an index outside [0, size), an index
\* between the size and the capacity included, fails with the out-of-bounds
\* error (IGRAPH_EINVAL) and changes nothing.
C5_SetOutsideFails ==
    [][last'.op \in {"Set", "Set2"} =>
         \A idx \in OutIdx("A") : \A value \in Strings :
         \A fail \in BOOLEAN : \A moved \in Moves("A", idx) :
            ( /\ WellFormed(vec, heap) /\ ~aborted' /\ ~last'.ub
              /\ \/ SetCall("A", idx, value, fail, moved)
                 \/ Set2Call("A", idx, value, fail, moved) )
            => /\ last'.rc = "EINVAL"
               /\ Contents(vec', heap', "A") = Contents(vec, heap, "A")
    ]_vars

\* C6: for every mapping the contract allows (nremove zeros, the other
\* entries distinct and within 1..n-nremove, in any order) the element at i
\* with index[i] = k # 0 ends at position k-1 and the size is n - nremove.
C6_PermutationCompactPlacesElements ==
    [][last'.op = "PermutationCompact" =>
         \A nremove \in 0..vec["A"].end :
         \A index \in Mappings(vec["A"].end, nremove) : \A re \in PermReallocs :
            ( /\ WellFormed(vec, heap) /\ ~aborted' /\ ~last'.ub
              /\ PermutationCompactCall("A", index, nremove, re) )
            => /\ vec'["A"].end = vec["A"].end - nremove
               /\ \A i \in 1..vec["A"].end :
                     index[i] # 0 =>
                        StrAt(heap', At(vec'["A"].slots, index[i] - 1))
                            = Contents(vec, heap, "A")[i]
    ]_vars

\* C7: RemoveRange(from, to) on a well-formed vector [s0 .. sn-1] with
\* 0 <= from <= to <= n leaves [s0 .. s(from-1), s(to) .. s(n-1)], the size
\* n - (to - from) and the capacity it had.
C7_RemoveRangeResult ==
    [][last'.op = "RemoveRange" =>
         \A to \in 0..vec["A"].end : \A from \in 0..to :
            ( /\ WellFormed(vec, heap) /\ ~aborted'
              /\ RemoveRangeCall("A", from, to) )
            => /\ last'.rc = "OK"
               /\ Contents(vec', heap', "A")
                     = SubSeq(Contents(vec, heap, "A"), 1, from)
                       \o SubSeq(Contents(vec, heap, "A"), to + 1, vec["A"].end)
               /\ vec'["A"].end = vec["A"].end - (to - from)
               /\ vec'["A"].stor_end = vec["A"].stor_end
    ]_vars

\* a RemoveRange took one element out of three in a vector of capacity four
C7_Witness ==
    /\ Defined
    /\ last.op = "RemoveRange" /\ last.rc = "OK"
    /\ last.n0 = 3 /\ last.c0 = 4
    /\ vec["A"].end = 2 /\ vec["A"].stor_end = 4
    /\ Contents(vec, heap, "A") = << <<1>>, << >> >>

C9_AddResult ==
    [][last'.op = "Add" =>
         \A value \in Strings : \A fv \in BOOLEAN : \A fr \in AddFails(vec["A"]) :
            ( /\ WellFormed(vec, heap) /\ ~aborted'
              /\ AddCall("A", value, fr, fv)
              /\ igraph_strvector_add(vec["A"], heap, value, fr, fv).nfail = 0
              /\ last'.rc = "OK" )
            => /\ vec'["A"].end = vec["A"].end + 1
               /\ Contents(vec', heap', "A")
                     = Append(Contents(vec, heap, "A"), CStr(value))
    ]_vars

\* C10: Resize(n); Resize(m); Resize(n) with m < n, all successful, leaves
\* size n, the elements below min(m, oldsize) as they were, and the empty
\* string in every slot from m to n - 1.
C10_ResizeSequence ==
    [][last'.op = "ResizeThrice" =>
         LET big == last'.arg[1]
             small == last'.arg[2]
         IN ( /\ WellFormed(vec, heap) /\ ~aborted'
              /\ ResizeThriceCall("A", big, small) )
            => /\ last'.rc = "OK"
               /\ small < big
               /\ vec'["A"].end = big
               /\ \A k \in 1..big :
                     /\ k <= Min(small, vec["A"].end) =>
                           StrAt(heap', At(vec'["A"].slots, k - 1))
                               = Contents(vec, heap, "A")[k]
                     /\ k > small =>
                           StrAt(heap', At(vec'["A"].slots, k - 1)) = << >>
    ]_vars

\* the sequence 3, 1, 3 ran on a vector of three elements
C10_Witness ==
    /\ Defined
    /\ last.op = "ResizeThrice" /\ last.rc = "OK"
    /\ last.n0 = 3 /\ last.arg = <<3, 1>>
    /\ vec["A"].end = 3
    /\ Contents(vec, heap, "A") = << <<1>>, << >>, << >> >>

\* no slot of A holds the address of a buffer a slot of B holds
NoSharedBuffer(vs) ==
    \A k \in 1..Len(vs["A"].slots) : \A l \in 1..Len(vs["B"].slots) :
        vs["A"].slots[k] > 0 => vs["A"].slots[k] # vs["B"].slots[l]

C11_WitnessSource ==
    /\ Defined
    /\ last.copied /\ last.v = "B" /\ last.op \in {"Set", "Add", "RemoveRange"}
    /\ last.rc = "OK"
    /\ Contents(vec, heap, "A") = << <<1>>, << >> >>
    /\ Contents(vec, heap, "B") # Contents(vec, heap, "A")

\* C12: a GatherByIndex(v, idx) in which no allocation fails, with every
\* entry of idx in [0, Size(v)), returns success and leaves a result of
\* size |idx| whose element i equals v[idx[i]], whatever the result vector
\* held before; v is left as it was.
C12_GatherResult ==
    [][last'.op = "GatherByIndex" =>
         LET idx == last'.arg
         IN \A moved \in BOOLEAN : \A junk \in Junk("B") :
               ( /\ WellFormed(vec, heap) /\ ~aborted'
                 /\ GatherByIndexCall("A", idx, 0, 0 - 1, moved, junk) )
               => /\ last'.rc = "OK"
                  /\ vec'["A"].end = Len(idx)
                  /\ \A i \in 1..Len(idx) :
                        Contents(vec', heap', "A")[i]
                            = Contents(vec, heap, "B")[idx[i] + 1]
                  /\ vec'["B"].end = vec["B"].end
                  /\ Contents(vec', heap', "B") = Contents(vec, heap, "B")
    ]_vars

\* v = ["", "a"] gathered with [1, 0] into a result vector that held one
\* element: the result is ["a", ""]
C12_Witness ==
    /\ Defined
    /\ last.op = "GatherByIndex" /\ last.rc = "OK"
    /\ last.arg = <<1, 0>> /\ last.n0 = 1
    /\ Contents(vec, heap, "B") = << << >>, <<1>> >>
    /\ Contents(vec, heap, "A") = << <<1>>, << >> >>

\* v = ["a", ""] gathered with the repeated index [0, 0] into a result
\* vector that held two elements: the result is ["a", "a"]
C12_WitnessRepeated ==
    /\ Defined
    /\ last.op = "GatherByIndex" /\ last.rc = "OK"
    /\ last.arg = <<0, 0>> /\ last.n0 = 2
    /\ Contents(vec, heap, "B") = << <<1>>, << >> >>
    /\ Contents(vec, heap, "A") = << <<1>>, <<1>> >>

\* what igraph_strvector_get hands out for slot idx of vector A in the
\* state reached: NoString where the call would trap or read a bad pointer
GetAfter(idx) ==
    IF GetFatal(vec'["A"], idx) \/ GetUb(vec'["A"], heap', idx) THEN NoString
    ELSE igraph_strvector_get(vec'["A"], heap', idx, NoString)

\* C13: for every index in [0, Size()) and every string s, the empty one
\* included, a Set(index, s) whose allocation succeeds returns success and
\* the Get(index) that follows yields s; the same for the explicit-length
\* form, which stores the first len bytes of the value.
C13_GetAfterSet ==
    [][last'.op \in {"Set", "Set2"} =>
         \A idx \in 0..(vec["A"].end - 1) : \A value \in SetStrings :
         \A moved \in Moves("A", idx) :
            /\ ( /\ WellFormed(vec, heap) /\ ~aborted'
                 /\ SetCall("A", idx, value, FALSE, moved) )
               => last'.rc = "OK" /\ GetAfter(idx) = value
            /\ \A len \in 0..Len(value) :
                  ( /\ WellFormed(vec, heap) /\ ~aborted'
                    /\ Set2LenCall("A", idx, value, len, FALSE, moved) )
                  => last'.rc = "OK" /\ GetAfter(idx) = SubSeq(value, 1, len)
    ]_vars

\* slot 1 of a vector of two elements was set to "ab"
C13_Witness ==
    /\ Defined
    /\ last.op \in {"Set", "Set2"} /\ last.rc = "OK" /\ last.n0 = 2
    /\ Contents(vec, heap, "A")[2] = <<1, 2>>

\* C14: a Set, Add, Resize (shrinking or growing), RemoveRange, Remove,
\* Clear or Append leaves the capacity stor_end - stor_begin at least as
\* large as it was before the call.
C14_CapacityNeverShrinks ==
    [][( /\ last'.op \in {"Set", "Set2", "Add", "Resize", "RemoveRange",
                          "Remove", "Clear", "Append"}
         /\ WellFormed(vec, heap) /\ ~aborted' /\ ~last'.ub )
       => vec'[last'.v].stor_end >= vec[last'.v].stor_end
    ]_vars

\* the buffers allocated and not released
LiveBuffers(h) == Cardinality({p \in DOMAIN h : h[p].live})

\* C15: a growing Resize(newsize) whose i-th per-slot allocation fails
\* (i >= 1) returns IGRAPH_ENOMEM after releasing the empty strings it
\* allocated for the slots before i: no more buffers are allocated after the
\* call than before it.
C15_ResizeReleasesOnFailure ==
    [][last'.op = "Resize" =>
         \A newsize \in 0..Room("A") : \A fail \in ResizeFails(vec["A"], newsize) :
            ( /\ WellFormed(vec, heap) /\ ~aborted' /\ ~last'.ub
              /\ fail >= 3
              /\ ResizeCall("A", newsize, fail) )
            => /\ last'.rc = "ENOMEM"
               /\ ~last'.leak
               /\ LiveBuffers(heap') = LiveBuffers(heap)
    ]_vars

\* C16: an Append(A, B) whose growth succeeds and in which the copy of one
\* element of B cannot be allocated returns IGRAPH_ENOMEM with the size of A
\* and every string of A as before the call; B is left as it was.
C16_AppendRollsBack ==
    [][last'.op = "Append" =>
         \A fs \in DupFails(vec["B"]) : \A junk \in Junk("B") :
            ( /\ WellFormed(vec, heap) /\ ~aborted'
              /\ igraph_strvector_append(vec["A"], heap, vec["B"], 0, fs, junk).nfail = 1
              /\ AppendCall("A", 0, fs, junk) )
            => /\ last'.rc = "ENOMEM"
               /\ vec'["A"].end = vec["A"].end
               /\ Contents(vec', heap', "A") = Contents(vec, heap, "A")
               /\ Contents(vec', heap', "B") = Contents(vec, heap, "B")
               /\ ~last'.leak
    ]_vars

\* an Append of B = ["a"] onto A = ["a"] of capacity one failed after the
\* growth: A has its one element and the capacity the growth gave it
C16_Witness ==
    /\ Defined
    /\ last.op = "Append" /\ last.rc = "ENOMEM"
    /\ last.n0 = 1 /\ last.c0 = 1
    /\ vec["A"].end = 1 /\ vec["A"].stor_end = 2
    /\ Contents(vec, heap, "A") = << <<1>> >>
    /\ Contents(vec, heap, "B") = << <<1>> >>

\* twice c, capped at IGRAPH_INTEGER_MAX
CappedDouble(c) ==
    IF c <= IGRAPH_INTEGER_MAX \div 2 THEN 2 * c ELSE IGRAPH_INTEGER_MAX

\* C17: an Add on a vector of IGRAPH_INTEGER_MAX elements fails with
\* IGRAPH_EOVERFLOW and changes nothing; any other Add (its allocations
\* succeeding) leaves the capacity unchanged where Size() < capacity, and
\* where Size() = capacity = c leaves capacity 1 if c = 0 and otherwise 2c,
\* capped at IGRAPH_INTEGER_MAX.
C17_AddCapacity ==
    [][AddBig =>
         IF huge.size = IGRAPH_INTEGER_MAX
         THEN huge' = [huge EXCEPT !.rc = "EOVERFLOW"]
         ELSE /\ huge'.rc = "OK"
              /\ huge'.size = huge.size + 1
              /\ huge.size < huge.cap => huge'.cap = huge.cap
              /\ huge.size = huge.cap =>
                    huge'.cap = IF huge.cap = 0 THEN 1 ELSE CappedDouble(huge.cap)
    ]_vars

\* C18: after MoveInterval(begin, end, to) on a vector whose slots all hold
\* strings, with no allocation failing, every destination slot to + i holds
\* the string slot begin + i held before the call, and every slot of
\* [begin, end) outside the destination range holds the string it held,
\* also where the two ranges overlap.
C18_MoveIntervalCopies ==
    [][last'.op = "MoveInterval" =>
         LET begin == last'.arg[1]
             end == last'.arg[2]
             to == last'.arg[3]
             old == Contents(vec, heap, "A")
         IN \A junk \in Strings :
               ( /\ WellFormed(vec, heap) /\ ~aborted' /\ ~last'.ub
                 /\ MoveIntervalCall("A", begin, end, to, 0 - 1, junk) )
               => \A i \in 0..(end - begin - 1) :
                     /\ StrAt(heap', At(vec'["A"].slots, to + i)) = old[begin + i + 1]
                     /\ (begin + i < to \/ begin + i >= to + end - begin) =>
                           StrAt(heap', At(vec'["A"].slots, begin + i))
                               = old[begin + i + 1]
    ]_vars

\* C19: in every reachable state the recorded capacity stor_end - stor_begin
\* of an initialised vector is at most the number of slots of the slot
\* array allocated for it.
C19_CapacityWithinAllocation ==
    Defined =>
        \A n \in Names : vec[n].st = "ready" => vec[n].stor_end <= vec[n].alloc

\* every buffer that is allocated and not released is held by a slot below
\* end of an initialised vector
AllReferenced(vs, h) ==
    \A p \in DOMAIN h : h[p].live =>
        \E n \in Names : /\ vs[n].st = "ready"
                         /\ \E k \in 1..vs[n].end : At(vs[n].slots, k - 1) = p

\* C20: no string buffer is leaked.  An Add in which every allocation
\* succeeds, on a vector whose buffers are all held by live slots, leaves
\* every allocated buffer held by a live slot; a Destroy of such a vector
\* leaves no buffer allocated.
C20_NoLeak ==
    [][( /\ last'.op \in {"Add", "Destroy"}
         /\ WellFormed(vec, heap) /\ AllReferenced(vec, heap)
         /\ ~aborted' /\ ~last'.ub
         /\ \/ last'.op = "Destroy"
            \/ \E value \in Strings : AddCall("A", value, 0, FALSE) )
       => /\ ~last'.leak
          /\ AllReferenced(vec', heap')
    ]_vars

\* C21: whenever GatherByIndex(v, idx) returns success, element i of the
\* result equals v[idx[i]] for every i, also where an allocation inside one
\* of its igraph_strvector_set calls fails.
C21_GatherSuccessMeansCopied ==
    [][last'.op = "GatherByIndex" =>
         LET idx == last'.arg
         IN \A fr \in ResizeFails(vec["A"], Len(idx)) :
            \A fs \in (0 - 1)..(Len(idx) - 1) :
            \A moved \in BOOLEAN : \A junk \in Junk("B") :
               ( /\ WellFormed(vec, heap) /\ ~aborted' /\ ~last'.ub
                 /\ GatherByIndexCall("A", idx, fr, fs, moved, junk)
                 /\ last'.rc = "OK" )
               => /\ vec'["A"].end = Len(idx)
                  /\ \A i \in 1..Len(idx) :
                        Contents(vec', heap', "A")[i]
                            = Contents(vec, heap, "B")[idx[i] + 1]
    ]_vars

====
